---------------------------- MODULE Spec2Model ----------------------------
(***************************************************************************)
(* datums: source cells (Datum), derived nodes (Composed), the shared      *)
(* listener registry (insertListener / maybeNotifyListeners) and the batch *)
(* write (setMany) of src/index.ts.                                         *)
(*                                                                         *)
(* The library is synchronous and re-entrant: a write runs the listeners   *)
(* inside the call, and a listener may call back into the library.  The    *)
(* model keeps an explicit call stack; while the stack is not empty the    *)
(* only enabled action is the next step of the frame on top, so a call,    *)
(* once begun, runs to its end (or to an exception, which unwinds the      *)
(* whole stack: the library has no try/catch).                             *)
(*                                                                         *)
(* src/index.ts holds the positional-inputs module (lines 1-274) followed  *)
(* by the older named-inputs module (lines 276-474).  The variable ver     *)
(* says which of the two a behaviour runs; it never changes.  Of the third *)
(* module (lines 476-640) the model has the equality deepEquals.           *)
(***************************************************************************)
EXTENDS Integers, Sequences, FiniteSets, TLC

\* ------------------------------------------------------------------ bounds
MaxNum == 1        \* primitive values are 0..MaxNum
MaxSlots == 5      \* no registration on a registry that already has this many slots
MaxCb == 2         \* user callbacks registered in one behaviour
MaxPairs == 2      \* pairs in one setMany call
MaxGaps == 7       \* churned slots of a registry that a behaviour starts with
MaxLen == 2        \* elements of an array, keys of an object given to deepEquals
\* Stand-in for the high-water mark 1000 of maybeNotifyListeners (line 259),
\* scaled down so that a registry can exceed it within MaxSlots.
HighWater == 2

\* ------------------------------------------------------------------ values
\* A value is a primitive number, a flat object {a: n} or a nested object
\* {a: {b: n}}.  ref tells two allocations of an object apart: two objects
\* with the same content and different ref are deep-equal and not identical.
Num(n) == [t |-> "num", ref |-> 0, n |-> n]
Flat(r, n) == [t |-> "flat", ref |-> r, n |-> n]
Nested(r, n) == [t |-> "nested", ref |-> r, n |-> n]
Null == [t |-> "null", ref |-> 0, n |-> 0]
Undefined == [t |-> "undefined", ref |-> 0, n |-> 0]
UNSET == [t |-> "UNSET", ref |-> 0, n |-> 0]

Nums == {Num(n) : n \in 0..MaxNum}
Objects == {Flat(1, 1), Flat(2, 1), Nested(1, 1), Nested(2, 1)}
Values == Nums \cup Objects

\* fast-equals deepEqual: structural equality, whatever the allocation.
deepEqual(a, b) == a.t = b.t /\ a.n = b.n

\* fast-equals shallowEqual: identical, or objects whose fields are
\* identical (===) one level down; the inner object of a nested object is
\* allocated with the outer one, so two allocations never share it.
shallowEqual(a, b) == a = b \/ (a.t = "flat" /\ b.t = "flat" /\ a.n = b.n)

RECURSIVE SumN(_)
SumN(s) == IF s = <<>> THEN 0 ELSE Head(s).n + SumN(Tail(s))

\* The combine functions a derived node is built with.
\*   sum : ([a, b]) => (a + b) % m       ignores the previous output
\*   acc : (vals, last) => last == null ? sum : (last + sum + 1) % m
\*   box : (vals) => ({a: sum})           a new object on every call
\*   partial : like sum, but throws when the inputs add up to MaxNum
\*   once : (vals, last, unsub) => { if (sum > 0) unsub(); return sum % m }
Fns == {"sum", "acc", "box", "partial", "once"}
Modulus == MaxNum + 1

\* What a Composed passes to its combine function as third argument: the
\* calls this.#compute(collected, null) and this.#compute(collected, oldVal)
\* have two arguments, so the third parameter is undefined.
ThirdArgument == Undefined

\* The combine function calls its third parameter.
callsThird(f, vals) == f = "once" /\ SumN(vals) > 0

\* The combine function throws: by itself, or because it calls a third
\* parameter that is not a function (TypeError).
computeThrows(f, vals) ==
    \/ f = "partial" /\ SumN(vals) = MaxNum
    \/ callsThird(f, vals) /\ ThirdArgument = Undefined

compute(f, vals, lastOut) ==
    CASE f \in {"sum", "partial", "once"} -> Num(SumN(vals) % Modulus)
      [] f = "acc" -> IF lastOut = Null THEN Num(SumN(vals) % Modulus)
                      ELSE Num((lastOut.n + SumN(vals) + 1) % Modulus)
      [] f = "box" -> Flat(IF lastOut.ref = 1 THEN 2 ELSE 1, SumN(vals) % Modulus)


\* ------------------------------------------------------------------- nodes
Sources == {"x", "y"}          \* Datum objects
Derived == {"c", "e", "g"}     \* Composed objects, constructed by Compose
Nodes == Sources \cup Derived

\* ReadonlyDatum objects of the named-inputs module: rx = toReadonly(x) and
\* rc = toReadonly(c).  A ReadonlyDatum holds its #datum and nothing else, so
\* it is the same object whenever it is made.
Views == {"rx", "rc"}
datumOf(r) == IF r = "rx" THEN "x" ELSE "c"

\* The Datum or Composed whose #val and #listeners the val getter and the
\* onChange of a readable object end at.
target(n) == IF n \in Views THEN datumOf(n) ELSE n

\* Of the three classes only Datum declares set.
hasSet(n) == n \in Sources

VARIABLES
    ver,         \* "positional" (lines 1-274) or "named" (lines 276-474)
    val,         \* #val of every node
    lastVal,     \* #lastVal of every source cell (UNSET outside a batch)
    listeners,   \* the array object created as #listeners of every node
    destroyed,   \* #destroyed of every derived node
    made,        \* "no", "yes", or "threw" (its constructor threw)
    fn,          \* #compute of every derived node
    cursors,     \* #cursors
    lastIn,      \* #lastIn (NoSnapshot before it is assigned and once released)
    onDestroy,   \* #onDestroy: the unsubscribe closures, each an (array, index)
    stack,       \* the call stack, innermost frame first
    nextId,      \* identity of the next user callback
    handle,      \* the unsubscribe closure onChange returned for each callback
    log,         \* observer: callback and combine invocations of the current call
    pre,         \* observer: the state when the current top-level call began
    op,          \* observer: the current (or last) top-level call
    result,      \* "running", "ok" (returned) or "error" (threw)
    ret,         \* value returned by the last read of val
    revoked      \* observer: callbacks whose onChange handle has been invoked

vars == <<ver, val, lastVal, listeners, destroyed, made, fn, cursors, lastIn,
          onDestroy, stack, nextId, handle, log, pre, op, result, ret,
          revoked>>

\* The whole state as one record, so that a call made inside another call
\* is the composition of their effects.
Cur == [ver |-> ver, val |-> val, lastVal |-> lastVal, listeners |-> listeners,
        destroyed |-> destroyed, made |-> made, fn |-> fn, cursors |-> cursors,
        lastIn |-> lastIn, onDestroy |-> onDestroy, stack |-> stack,
        nextId |-> nextId, handle |-> handle, log |-> log, pre |-> pre,
        op |-> op, result |-> result, ret |-> ret, revoked |-> revoked]

Commit(M) ==
    /\ ver' = M.ver /\ val' = M.val /\ lastVal' = M.lastVal
    /\ listeners' = M.listeners /\ destroyed' = M.destroyed /\ made' = M.made
    /\ fn' = M.fn /\ cursors' = M.cursors /\ lastIn' = M.lastIn
    /\ onDestroy' = M.onDestroy /\ stack' = M.stack /\ nextId' = M.nextId
    /\ handle' = M.handle /\ log' = M.log /\ pre' = M.pre /\ op' = M.op
    /\ result' = M.result /\ ret' = M.ret /\ revoked' = M.revoked

\* --------------------------------------------------------------- listeners
\* A slot of a listener array: undefined, the arrow function a Composed
\* constructor subscribes (v => this.#handleUpdate(idx, v)), or a user
\* callback.  A user callback does one thing when invoked (beh).
undefinedSlot ==
    [k |-> "undefined", id |-> 0, node |-> "-", idx |-> 0, beh |-> "-",
     tgt |-> "-", tid |-> 0, v |-> Undefined]
Upd(c, idx) ==
    [k |-> "upd", id |-> 0, node |-> c, idx |-> idx, beh |-> "-",
     tgt |-> "-", tid |-> 0, v |-> Undefined]
Cb(id, beh, tgt, tid, v) ==
    [k |-> "cb", id |-> id, node |-> "-", idx |-> 0, beh |-> beh,
     tgt |-> tgt, tid |-> tid, v |-> v]

NoHandle == [arr |-> "-", n |-> 0]

\* Stack frames: a maybeNotifyListeners loop at slot i of array arr, the
\* second loop of setMany at pair i, or an onChange(cb, true) waiting for
\* cb to return.
NotifyFrame(arr, newVal, oldVal) ==
    [op |-> "notify", arr |-> arr, i |-> 1, newVal |-> newVal, oldVal |-> oldVal,
     undefinedCount |-> 0, pairs |-> <<>>, id |-> 0]
FlushFrame(pairs) ==
    [op |-> "flush", arr |-> "-", i |-> 1, newVal |-> Undefined,
     oldVal |-> Undefined, undefinedCount |-> 0, pairs |-> pairs, id |-> 0]
OnChangeFrame(arr, n, id) ==
    [op |-> "onChange", arr |-> arr, i |-> n, newVal |-> Undefined,
     oldVal |-> Undefined, undefinedCount |-> 0, pairs |-> <<>>, id |-> id]

Push(M, f) == [M EXCEPT !.stack = <<f>> \o M.stack]
Pop(M) == [M EXCEPT !.stack = Tail(M.stack)]

\* Mutant: the exception is caught where it is thrown and only recorded.
ThrowSwallowed(M) == [M EXCEPT !.result = "error"]

\* An exception: nothing in the library catches, so it reaches the caller
\* of the top-level call.
Throw(M) == [M EXCEPT !.stack = <<>>, !.result = "error"]
Thrown(M) == M.result = "error"

\* Observer events: a user callback is invoked (call), a combine function
\* is invoked (compute), a notification pass starts (pass).  vals is #val of
\* every node at that moment; dead says that the node owning the listener
\* array was already destroyed.
Logged(M, e) == [M EXCEPT !.log = Append(M.log, e)]
IsDead(M, n) == IF n \in Derived THEN M.destroyed[n] ELSE FALSE
CallEvent(M, arr, listener, newVal, oldVal, n) ==
    [k |-> "call", node |-> arr, listener |-> listener, newVal |-> newVal,
     oldVal |-> oldVal, n |-> n, in |-> <<>>, vals |-> M.val,
     dead |-> IsDead(M, arr)]
ComputeEvent(M, c, collected, lastOut, out) ==
    [k |-> "compute", node |-> c, listener |-> undefinedSlot, newVal |-> out,
     oldVal |-> lastOut, n |-> 0, in |-> collected, vals |-> M.val,
     dead |-> IsDead(M, c)]
PassEvent(M, arr, newVal, oldVal) ==
    [k |-> "pass", node |-> arr, listener |-> undefinedSlot, newVal |-> newVal,
     oldVal |-> oldVal, n |-> 0, in |-> <<>>, vals |-> M.val,
     dead |-> IsDead(M, arr)]

\* ---------------------------------------------------------- the registry
\* Mutant: the slot is cut out of the array (splice) and the later slots
\* move down.
unsubSplices(M, arr, n) ==
    LET ls == M.listeners[arr] IN
    [M EXCEPT !.listeners[arr] =
        [j \in 1..(Len(ls) - 1) |-> IF j < n THEN ls[j] ELSE ls[j + 1]]]

\* listeners[n] = undefined, the body of every unsubscribe closure.  A
\* JavaScript array assigned past its end grows (the gap reads undefined).
unsub(M, arr, n) ==
    LET ls == M.listeners[arr]
        len == IF n > Len(ls) THEN n ELSE Len(ls)
    IN  [M EXCEPT !.listeners[arr] =
            [j \in 1..len |-> IF j = n \/ j > Len(ls) THEN undefinedSlot ELSE ls[j]]]

\* The slot insertListener writes: the end of the array (positional module,
\* n = listeners.length) or the first undefined slot (named module).
slotOf(M, arr) ==
    LET ls == M.listeners[arr] IN
    IF M.ver = "positional" THEN Len(ls) + 1
    ELSE CHOOSE j \in 1..(Len(ls) + 1) :
            /\ (j = Len(ls) + 1 \/ ls[j] = undefinedSlot)
            /\ \A h \in 1..(j - 1) : ls[h] # undefinedSlot

\* Mutant: the callback is put in front of the array (unshift).
pushListenerFront(M, arr, cb) ==
    [M EXCEPT !.listeners[arr] = <<cb>> \o M.listeners[arr]]

\* listeners.push(cb) / listeners[i] = cb
pushListener(M, arr, cb) ==
    LET ls == M.listeners[arr]
        n == slotOf(M, arr)
    IN  [M EXCEPT !.listeners[arr] =
            IF n = Len(ls) + 1 THEN Append(ls, cb) ELSE [ls EXCEPT ![n] = cb]]

\* Mutant: the guard compares by identity (newVal === oldVal).
maybeNotifyListenersIdentity(M, arr, newVal, oldVal) ==
    IF newVal = oldVal THEN M
    ELSE Logged(Push(M, NotifyFrame(arr, newVal, oldVal)),
                PassEvent(M, arr, newVal, oldVal))

\* The guard and the entry of maybeNotifyListeners; the loop is NotifyIter.
maybeNotifyListeners(M, arr, newVal, oldVal) ==
    IF deepEqual(newVal, oldVal) THEN M
    ELSE Logged(Push(M, NotifyFrame(arr, newVal, oldVal)),
                PassEvent(M, arr, newVal, oldVal))

\* ------------------------------------------------------------------- Datum
\* Mutant: oldVal is read after the assignment.
setReadsOldValLate(M, d, newVal) ==
    LET M1 == [M EXCEPT !.val[d] = newVal]
        oldVal == M1.val[d]
    IN  maybeNotifyListeners(M1, d, newVal, oldVal)

set(M, d, newVal) ==
    LET oldVal == M.val[d]
        M1 == [M EXCEPT !.val[d] = newVal]
    IN  maybeNotifyListeners(M1, d, newVal, oldVal)

\* Mutant: the batch-start value is overwritten by every staging.
setLaterForgetsStart(M, d, v) ==
    [M EXCEPT !.lastVal[d] = M.val[d], !.val[d] = v]

\* Mutant: only the first staging of a cell in a batch takes effect.
setLaterKeepsFirst(M, d, v) ==
    IF M.lastVal[d] = UNSET
    THEN [M EXCEPT !.lastVal[d] = M.val[d], !.val[d] = v]
    ELSE M

setLater(M, d, v) ==
    LET M1 == IF M.lastVal[d] = UNSET
              THEN [M EXCEPT !.lastVal[d] = M.val[d]] ELSE M
    IN  [M1 EXCEPT !.val[d] = v]

\* Mutant: the flush leaves the pending marker set.
flushKeepsMarker(M, d) ==
    IF M.lastVal[d] = UNSET THEN M
    ELSE maybeNotifyListeners(M, d, M.val[d], M.lastVal[d])

flush(M, d) ==
    IF M.lastVal[d] = UNSET THEN M
    ELSE LET oldVal == M.lastVal[d]
             M1 == [M EXCEPT !.lastVal[d] = UNSET]
         IN  maybeNotifyListeners(M1, d, M1.val[d], oldVal)

\* ---------------------------------------------------------------- Composed
IsDerived(n) == n \in Derived

\* #lastIn when it is undefined (every Composed of the model has a cursor,
\* so no snapshot is empty).
NoSnapshot == <<>>

\* The val getter of a node.  Reading a destroyed Composed throws in the
\* positional module; the named module's getter has no check.
valThrows(M, n) == IsDerived(n) /\ M.ver = "positional" /\ M.destroyed[n]

\* onChange of a destroyed Composed throws in both modules.
onChangeThrows(M, n) == IsDerived(n) /\ M.destroyed[n]

\* #getAll: the val of every cursor, in order.
getAllThrows(M, c) ==
    \E k \in 1..Len(M.cursors[c]) : valThrows(M, target(M.cursors[c][k]))
RECURSIVE valsOf(_, _)
valsOf(M, cs) ==
    IF cs = <<>> THEN <<>> ELSE <<M.val[target(Head(cs))]>> \o valsOf(M, Tail(cs))
getAll(M, c) == valsOf(M, M.cursors[c])

\* Mutant: every recomputation is given null as the previous output.
handleUpdateFromNull(M, c, idx, v) ==
    IF M.lastIn[c] = NoSnapshot THEN Throw(M)
    ELSE IF shallowEqual(v, M.lastIn[c][idx]) THEN M
    ELSE LET oldVal == M.val[c]
             collected == getAll(M, c)
             out == compute(M.fn[c], collected, Null)
             M1 == [M EXCEPT !.lastIn[c] = collected, !.val[c] = out]
         IN  maybeNotifyListeners(Logged(M1, ComputeEvent(M, c, collected, Null, out)),
                                  c, out, oldVal)

\* Mutant: the handler patches the notified value into the cached snapshot
\* and reads no upstream.
handleUpdatePatches(M, c, idx, v) ==
    IF M.lastIn[c] = NoSnapshot THEN Throw(M)
    ELSE IF shallowEqual(v, M.lastIn[c][idx]) THEN M
    ELSE LET oldVal == M.val[c]
             collected == [M.lastIn[c] EXCEPT ![idx] = v]
             out == compute(M.fn[c], collected, oldVal)
             M1 == [M EXCEPT !.lastIn[c] = collected, !.val[c] = out]
         IN  maybeNotifyListeners(Logged(M1, ComputeEvent(M, c, collected, oldVal, out)),
                                  c, out, oldVal)

\* Mutant: the handler recomputes whatever value it is notified with.
handleUpdateAlways(M, c, idx, v) ==
    IF M.lastIn[c] = NoSnapshot THEN Throw(M)
    ELSE LET oldVal == M.val[c]
             collected == getAll(M, c)
             out == compute(M.fn[c], collected, oldVal)
             M1 == [M EXCEPT !.lastIn[c] = collected, !.val[c] = out]
         IN  maybeNotifyListeners(Logged(M1, ComputeEvent(M, c, collected, oldVal, out)),
                                  c, out, oldVal)

handleUpdate(M, c, idx, v) ==
    IF M.lastIn[c] = NoSnapshot THEN Throw(M)       \* this.#lastIn[idx]: TypeError
    ELSE IF shallowEqual(v, M.lastIn[c][idx]) THEN M
    ELSE IF getAllThrows(M, c) THEN Throw(M)
    ELSE LET oldVal == M.val[c]
             collected == getAll(M, c)
             out == compute(M.fn[c], collected, oldVal)
             M1 == [M EXCEPT !.lastIn[c] = collected, !.val[c] = out]
             M2 == Logged(M1, ComputeEvent(M, c, collected, oldVal, out))
         IN  IF computeThrows(M.fn[c], collected)
             THEN Throw(Logged([M EXCEPT !.lastIn[c] = collected],
                               ComputeEvent(M, c, collected, oldVal, Undefined)))
             ELSE maybeNotifyListeners(M2, c, out, oldVal)

RECURSIVE unsubAll(_, _)
unsubAll(M, hs) ==
    IF hs = <<>> THEN M ELSE unsubAll(unsub(M, Head(hs).arr, Head(hs).n), Tail(hs))

stopListening(M, c) ==
    IF M.ver = "positional"
    THEN IF M.destroyed[c] THEN Throw(M)       \* for (... of undefined): TypeError
         ELSE [unsubAll(M, M.onDestroy[c]) EXCEPT
                  !.destroyed[c] = TRUE, !.onDestroy[c] = <<>>,
                  !.val[c] = Undefined, !.fn[c] = "-", !.cursors[c] = <<>>,
                  !.lastIn[c] = NoSnapshot]
    ELSE [unsubAll(M, M.onDestroy[c]) EXCEPT
             !.listeners[c] = <<>>, !.onDestroy[c] = <<>>, !.destroyed[c] = TRUE]

\* The subscription loop of the constructor, from cursor idx on.  onChange
\* of a destroyed cursor throws out of the constructor, which leaves the
\* subscriptions already made in place.
RECURSIVE subscribe(_, _, _)
subscribe(M, c, idx) ==
    IF idx > Len(M.cursors[c]) THEN M
    ELSE LET up == target(M.cursors[c][idx]) IN
         IF onChangeThrows(M, up) THEN Throw([M EXCEPT !.made[c] = "threw"])
         ELSE LET h == [arr |-> up, n |-> slotOf(M, up)]
                  M1 == pushListener(M, up, Upd(c, idx))
              IN  subscribe([M1 EXCEPT !.onDestroy[c] = Append(@, h)], c, idx + 1)

\* Mutant: the first computation is given #val (still undefined), not null.
ComposedLastOutNotNull(M, c, f, cs) ==
    LET M0 == [M EXCEPT !.fn[c] = f, !.cursors[c] = cs, !.made[c] = "yes"]
        M1 == subscribe(M0, c, 1)
    IN  IF Thrown(M1) THEN M1
        ELSE LET collected == getAll(M1, c)
                 out == compute(f, collected, M1.val[c])
             IN  Logged([M1 EXCEPT !.lastIn[c] = collected, !.val[c] = out],
                        ComputeEvent(M1, c, collected, M1.val[c], out))

Composed(M, c, f, cs) ==
    LET M0 == [M EXCEPT !.fn[c] = f, !.cursors[c] = cs, !.made[c] = "yes"]
        M1 == subscribe(M0, c, 1)
    IN  IF Thrown(M1) THEN M1
        ELSE LET collected == getAll(M1, c)
                 out == compute(f, collected, Null)
             IN  IF computeThrows(f, collected)
                 THEN Throw(Logged([M1 EXCEPT !.lastIn[c] = collected,
                                              !.made[c] = "threw"],
                                   ComputeEvent(M1, c, collected, Null, Undefined)))
                 ELSE Logged([M1 EXCEPT !.lastIn[c] = collected, !.val[c] = out],
                             ComputeEvent(M1, c, collected, Null, out))

\* ------------------------------------------------------- calling listeners
\* onChange(() => {})() on a live node: the slot is filled and emptied.
churn(M, n) ==
    unsub(pushListener(M, n, Cb(0, "nop", "-", 0, Undefined)), n, slotOf(M, n))

\* The closure insertListener returned for callback id, invoked.
unsubscribe(M, id) ==
    [unsub(M, M.handle[id].arr, M.handle[id].n) EXCEPT !.revoked = @ \cup {id}]

\* onChange(cb) without runImmediately: store cb, return its unsubscribe.
register(M, arr, cb) ==
    LET n == slotOf(M, arr) IN
    [pushListener(M, arr, cb) EXCEPT !.handle[cb.id] = [arr |-> arr, n |-> n]]

\* A callback that registers another one does so while the model has room.
canRegister(M, arr) == M.nextId <= MaxCb /\ slotOf(M, arr) <= MaxSlots

\* listener(newVal, oldVal, () => (listeners[n] = undefined)) for the
\* listener found in slot n of arr.
call(M, arr, listener, newVal, oldVal, n) ==
    IF listener.k = "upd" THEN handleUpdate(M, listener.node, listener.idx, newVal)
    ELSE LET M1 == Logged(M, CallEvent(M, arr, listener, newVal, oldVal, n)) IN
         CASE listener.beh = "nop" -> M1
           [] listener.beh = "unsubSelf" -> unsub(M1, arr, n)
           [] listener.beh = "unsub" ->
                IF M1.handle[listener.tid] = NoHandle THEN M1
                ELSE unsubscribe(M1, listener.tid)
           [] listener.beh = "destroy" -> stopListening(M1, listener.tgt)
           [] listener.beh = "set" -> set(M1, listener.tgt, listener.v)
           [] listener.beh = "throw" -> Throw(M1)
           [] listener.beh = "reg" ->
                IF canRegister(M1, arr)
                THEN register([M1 EXCEPT !.nextId = @ + 1], arr,
                              Cb(M1.nextId, "nop", "-", 0, Undefined))
                ELSE M1

\* Mutant: runImmediately is ignored.
insertListenerNeverRuns(M, arr, cb, v, runImmediately) == register(M, arr, cb)

insertListener(M, arr, cb, v, runImmediately) ==
    IF ~runImmediately THEN register(M, arr, cb)
    ELSE LET n == slotOf(M, arr)
             M1 == Push(pushListener(M, arr, cb), OnChangeFrame(arr, n, cb.id))
         IN  call(M1, arr, cb, v, v, n)

\* onChange of a Datum or a Composed with a new callback.
nodeOnChange(M, n, cb, runImmediately) ==
    IF onChangeThrows(M, n) THEN Throw(M)
    ELSE insertListener([M EXCEPT !.nextId = @ + 1], n, cb, M.val[n],
                        runImmediately)

\* Mutant: the view does not pass runImmediately on.
roOnChangeDropsFlag(M, r, cb, runImmediately) ==
    nodeOnChange(M, datumOf(r), cb, FALSE)

\* ReadonlyDatum.onChange: this.#datum.onChange(cb, runImmediately)
roOnChange(M, r, cb, runImmediately) ==
    nodeOnChange(M, datumOf(r), cb, runImmediately)

onChange(M, n, cb, runImmediately) ==
    IF n \in Views THEN roOnChange(M, n, cb, runImmediately)
    ELSE nodeOnChange(M, n, cb, runImmediately)

\* The val getter of a Datum or a Composed, read by the program.
nodeVal(M, n) == IF valThrows(M, n) THEN Throw(M) ELSE [M EXCEPT !.ret = M.val[n]]

\* ReadonlyDatum's val getter: this.#datum.val
roVal(M, r) == nodeVal(M, datumOf(r))

readVal(M, n) == IF n \in Views THEN roVal(M, n) ELSE nodeVal(M, n)

\* Mutant: the compaction keeps the last live listener only.
compactKeepsLast(ls) ==
    LET kept == SelectSeq(ls, LAMBDA l : l # undefinedSlot)
    IN  IF kept = <<>> THEN kept ELSE <<kept[Len(kept)]>>

\* One iteration of the loop of maybeNotifyListeners (the loop condition
\* reads listeners.length every time), or its end: the compaction of the
\* positional module, and the return.
compact(ls) == SelectSeq(ls, LAMBDA l : l # undefinedSlot)
notifyIter(M) ==
    LET top == Head(M.stack)
        ls == M.listeners[top.arr]
    IN  IF top.i <= Len(ls)
        THEN IF ls[top.i] # undefinedSlot
             THEN call([M EXCEPT !.stack[1].i = top.i + 1], top.arr, ls[top.i],
                       top.newVal, top.oldVal, top.i)
             ELSE [M EXCEPT !.stack[1].i = top.i + 1,
                            !.stack[1].undefinedCount = top.undefinedCount + 1]
        ELSE IF /\ M.ver = "positional"
                /\ Len(ls) > HighWater
                /\ top.undefinedCount * 4 > Len(ls) * 3
             THEN Pop([M EXCEPT !.listeners[top.arr] = compact(ls)])
             ELSE Pop(M)

\* One iteration of the second loop of setMany, or its end.
flushIter(M) ==
    LET top == Head(M.stack) IN
    IF top.i <= Len(top.pairs)
    THEN flush([M EXCEPT !.stack[1].i = top.i + 1], top.pairs[top.i][1])
    ELSE Pop(M)

\* onChange(cb, true) returns the unsubscribe closure once cb has returned.
onChangeReturn(M) ==
    LET top == Head(M.stack) IN
    Pop([M EXCEPT !.handle[top.id] = [arr |-> top.arr, n |-> top.i]])

\* Mutant: the first loop of setMany stops after its first pair.
stageHeadOnly(M, pairs) ==
    IF pairs = <<>> THEN M ELSE setLater(M, Head(pairs)[1], Head(pairs)[2])

\* The first loop of setMany.
RECURSIVE stage(_, _)
stage(M, pairs) ==
    IF pairs = <<>> THEN M
    ELSE stage(setLater(M, Head(pairs)[1], Head(pairs)[2]), Tail(pairs))

setMany(M, pairs) == Push(stage(M, pairs), FlushFrame(pairs))

\* ------------------------------------------------------- top-level calls
Op(name, node, v, pairs, id) ==
    [name |-> name, node |-> node, v |-> v, pairs |-> pairs, id |-> id]

Snapshot(M) ==
    [val |-> M.val, listeners |-> M.listeners, destroyed |-> M.destroyed,
     made |-> M.made, lastIn |-> M.lastIn, lastVal |-> M.lastVal]

Begin(M, o) ==
    [M EXCEPT !.log = <<>>, !.pre = Snapshot(M), !.op = o,
              !.result = "running", !.ret = Undefined]

End(M) ==
    IF Thrown(M) THEN M
    ELSE [M EXCEPT !.result = IF M.stack = <<>> THEN "ok" ELSE "running"]

Idle == stack = <<>>
Exists(n) == IF n \in Sources THEN TRUE ELSE made[n] = "yes"

Set(d, v) ==
    /\ Idle
    /\ Commit(End(set(Begin(Cur, Op("set", d, v, <<>>, 0)), d, v)))

SetMany(pairs) ==
    /\ Idle
    /\ Commit(End(setMany(Begin(Cur, Op("setMany", "-", Undefined, pairs, 0)), pairs)))

OnChange(n, beh, tgt, tid, v, runImmediately) ==
    /\ Idle
    /\ Exists(target(n))
    /\ nextId <= MaxCb
    /\ slotOf(Cur, target(n)) <= MaxSlots
    /\ LET M == Begin(Cur, Op(IF runImmediately THEN "onChangeNow" ELSE "onChange",
                              n, Undefined, <<>>, nextId))
       IN  Commit(End(onChange(M, n, Cb(nextId, beh, tgt, tid, v), runImmediately)))

\* n.set(v) by a caller that the type checker does not stop: on an object
\* without a set method the call is a TypeError.
SetOn(n, v) ==
    /\ Idle
    /\ Exists(target(n))
    /\ LET M == Begin(Cur, Op("set", n, v, <<>>, 0))
       IN  Commit(End(IF hasSet(n) THEN set(M, n, v) ELSE Throw(M)))

Unsubscribe(id) ==
    /\ Idle
    /\ handle[id] # NoHandle
    /\ Commit(End(unsubscribe(Begin(Cur, Op("unsub", handle[id].arr, Undefined,
                                             <<>>, id)), id)))

\* n.onChange(() => {})(): a callback is registered and the closure that
\* onChange returns is invoked at once and dropped, which leaves an empty
\* slot behind (what the frequentUnsub test does ten million times).
Churn(n) ==
    /\ Idle
    /\ Exists(n)
    /\ slotOf(Cur, n) <= MaxSlots
    /\ LET M == Begin(Cur, Op("churn", n, Undefined, <<>>, 0))
       IN  Commit(End(IF onChangeThrows(M, n) THEN Throw(M) ELSE churn(M, n)))

Compose(c, f, cs) ==
    /\ Idle
    /\ made[c] = "no"
    /\ \A k \in 1..Len(cs) :
          /\ Exists(target(cs[k]))
          /\ Len(listeners[target(cs[k])]) + Len(cs) <= MaxSlots
    /\ Commit(End(Composed(Begin(Cur, Op("compose", c, Undefined, <<>>, 0)), c, f, cs)))

StopListening(c) ==
    /\ Idle
    /\ made[c] = "yes"
    /\ Commit(End(stopListening(Begin(Cur, Op("stopListening", c, Undefined, <<>>, 0)), c)))

ReadVal(n) ==
    /\ Idle
    /\ Exists(target(n))
    /\ LET M == Begin(Cur, Op("val", n, Undefined, <<>>, 0))
       IN  Commit(End(readVal(M, n)))

NotifyIter ==
    /\ stack # <<>>
    /\ Head(stack).op = "notify"
    /\ Commit(End(notifyIter(Cur)))

FlushIter ==
    /\ stack # <<>>
    /\ Head(stack).op = "flush"
    /\ Commit(End(flushIter(Cur)))

OnChangeReturn ==
    /\ stack # <<>>
    /\ Head(stack).op = "onChange"
    /\ Commit(End(onChangeReturn(Cur)))

\* ------------------------------------------------------------------- Init
\* The state of a program that has made the two cells and nothing else.
Empty(v) ==
    LET vals == [n \in Nodes |-> IF n \in Sources THEN Num(0) ELSE Undefined]
        M == [ver |-> v,
              val |-> vals,
              lastVal |-> [d \in Sources |-> UNSET],
              listeners |-> [n \in Nodes |-> <<>>],
              destroyed |-> [c \in Derived |-> FALSE],
              made |-> [c \in Derived |-> "no"],
              fn |-> [c \in Derived |-> "-"],
              cursors |-> [c \in Derived |-> <<>>],
              lastIn |-> [c \in Derived |-> NoSnapshot],
              onDestroy |-> [c \in Derived |-> <<>>],
              stack |-> <<>>,
              nextId |-> 1,
              handle |-> [i \in 1..MaxCb |-> NoHandle],
              log |-> <<>>,
              pre |-> <<>>,
              op |-> Op("init", "-", Undefined, <<>>, 0),
              result |-> "ok",
              ret |-> Undefined,
              revoked |-> {}]
    IN  [M EXCEPT !.pre = Snapshot(M)]

\* A behaviour starts in state M.
StartsAs(M) ==
    /\ ver = M.ver /\ val = M.val /\ lastVal = M.lastVal
    /\ listeners = M.listeners /\ destroyed = M.destroyed /\ made = M.made
    /\ fn = M.fn /\ cursors = M.cursors /\ lastIn = M.lastIn
    /\ onDestroy = M.onDestroy /\ stack = M.stack /\ nextId = M.nextId
    /\ handle = M.handle /\ log = M.log /\ pre = M.pre /\ op = M.op
    /\ result = M.result /\ ret = M.ret /\ revoked = M.revoked

\* M after onChange(cb) with a callback that only observes.
Observed(M, n) ==
    register([M EXCEPT !.nextId = @ + 1], n, Cb(M.nextId, "nop", "-", 0, Undefined))

\* The end of a construction phase: the observers start afresh.
Settled(M) ==
    [M EXCEPT !.log = <<>>, !.pre = Snapshot(M),
              !.op = Op("init", "-", Undefined, <<>>, 0)]

\* ------------------------------------------------------------------- Spec
\* Plain writes, registrations, unsubscriptions, reads and the life cycle of
\* one derived node, in the positional module.  Callbacks only observe, or
\* destroy the derived node.
Init == StartsAs(Empty("positional"))

\* x takes numbers and two deep-equal objects, y numbers.
Writes == {<<"x", v>> : v \in Nums \cup {Flat(1, 1), Flat(2, 1)}}
          \cup {<<"y", v>> : v \in Nums}
SpecShapes == {<<"x">>, <<"x", "y">>}
Listened == {"x", "c"}

Next ==
    \/ \E w \in Writes : Set(w[1], w[2])
    \/ \E n \in Listened, r \in BOOLEAN : OnChange(n, "nop", "-", 0, Undefined, r)
    \/ \E n \in Listened :
          made["c"] = "yes" /\ OnChange(n, "destroy", "c", 0, Undefined, FALSE)
    \/ \E id \in 1..MaxCb : Unsubscribe(id)
    \/ \E f \in {"sum", "acc"}, cs \in SpecShapes : Compose("c", f, cs)
    \/ StopListening("c")
    \/ \E n \in {"x", "c"} : ReadVal(n)
    \/ NotifyIter
    \/ OnChangeReturn

Spec == Init /\ [][Next]_vars

\* ------------------------------------------------------------- SpecNamed
\* The life cycle of a derived node in the named-inputs module.
InitNamed == StartsAs(Empty("named"))

NextNamed ==
    \/ \E v \in Nums : Set("x", v)
    \/ \E n \in Listened, r \in BOOLEAN : OnChange(n, "nop", "-", 0, Undefined, r)
    \/ \E id \in 1..MaxCb : Unsubscribe(id)
    \/ \E cs \in SpecShapes : Compose("c", "sum", cs)
    \/ StopListening("c")
    \/ \E n \in {"x", "c"} : ReadVal(n)
    \/ NotifyIter
    \/ OnChangeReturn

SpecNamed == InitNamed /\ [][NextNamed]_vars

\* ---------------------------------------------------------- SpecRegistry
\* The registry of the cell x in the positional module: callbacks that
\* observe, unsubscribe themselves or another callback, register a further
\* callback, write a cell or throw; registrations, unsubscriptions and
\* writes in any order.
Behaviours ==
    {<<"nop", "-", 0, Undefined>>, <<"unsubSelf", "-", 0, Undefined>>,
     <<"reg", "-", 0, Undefined>>, <<"throw", "-", 0, Undefined>>}
    \cup {<<"unsub", "-", tid, Undefined>> : tid \in 1..MaxCb}
    \cup {<<"set", d, 0, Num(1)>> : d \in Sources}

NextRegistry ==
    \/ \E v \in Nums : Set("x", v)
    \/ \E b \in Behaviours : OnChange("x", b[1], b[2], b[3], b[4], FALSE)
    \/ \E beh \in {"nop", "unsubSelf"} : OnChange("x", beh, "-", 0, Undefined, TRUE)
    \/ \E id \in 1..MaxCb : Unsubscribe(id)
    \/ Churn("x")
    \/ NotifyIter
    \/ OnChangeReturn

SpecRegistry == Init /\ [][NextRegistry]_vars

\* ----------------------------------------------------------- SpecReentry
\* Writes of x, in the positional module, when x has two callbacks that
\* observe, write 0 to a cell or remove themselves, registered among slots
\* that were filled and emptied before (k1 before the first callback, k2
\* between the two).
RECURSIVE Churned(_, _, _)
Churned(M, n, k) == IF k = 0 THEN M ELSE Churned(churn(M, n), n, k - 1)

Listening(M, n, b) ==
    register([M EXCEPT !.nextId = @ + 1], n, Cb(M.nextId, b[1], b[2], b[3], b[4]))

ReentryBehaviours ==
    {<<"nop", "-", 0, Undefined>>, <<"unsubSelf", "-", 0, Undefined>>}
    \cup {<<"set", d, 0, Num(0)>> : d \in Sources}

Registry(k1, b1, k2, b2) ==
    LET M1 == Listening(Churned(Empty("positional"), "x", k1), "x", b1)
    IN  Settled(Listening(Churned(M1, "x", k2), "x", b2))

InitReentry ==
    \E k1 \in 0..MaxGaps : \E k2 \in 0..(MaxGaps - k1) :
        \E b1, b2 \in ReentryBehaviours : StartsAs(Registry(k1, b1, k2, b2))

NextReentry ==
    \/ \E v \in Nums : Set("x", v)
    \/ \E id \in 1..MaxCb : Unsubscribe(id)
    \/ NotifyIter

SpecReentry == InitReentry /\ [][NextReentry]_vars

\* The sequences over S of length at most n.
RECURSIVE SeqsUpTo(_, _)
SeqsUpTo(S, n) ==
    IF n = 0 THEN {<<>>}
    ELSE LET shorter == SeqsUpTo(S, n - 1)
         IN  shorter \cup {Append(q, w) : q \in shorter, w \in S}

\* ------------------------------------------------------------- SpecThrow
\* Writes and batches, in the positional module, on a graph whose first
\* derived node has a combine function that can throw:
\* c = compose(f, x) or compose(f, x, y) with f partial or once, then
\* e = compose(sum, x, y), then an observing callback on e.
Throwing(f, cs) ==
    LET M1 == Composed(Empty("positional"), "c", f, cs)
        M2 == Composed(M1, "e", "sum", <<"x", "y">>)
    IN  Settled(Observed(M2, "e"))

InitThrow ==
    \E f \in {"partial", "once"}, cs \in SpecShapes : StartsAs(Throwing(f, cs))

NumWrites == {<<d, v>> : d \in Sources, v \in Nums}

NextThrow ==
    \/ \E pairs \in SeqsUpTo(NumWrites, MaxPairs) \ {<<>>} : SetMany(pairs)
    \/ \E w \in NumWrites : Set(w[1], w[2])
    \/ NotifyIter
    \/ FlushIter

SpecThrow == InitThrow /\ [][NextThrow]_vars

\* ------------------------------------------------------------- SpecBatch
\* Batches and plain writes, in the positional module, on a graph that is
\* already built: c = compose(sum, x) or compose(sum, x, y), then
\* e = compose(sum, c, y), then one observing callback on x or on c and one
\* on e.
Batches == SeqsUpTo(Writes, MaxPairs) \ {<<>>}

Graph(cs, n) ==
    LET M1 == Composed(Empty("positional"), "c", "sum", cs)
        M2 == Composed(M1, "e", "sum", <<"c", "y">>)
    IN  Settled(Observed(Observed(M2, n), "e"))

InitBatch == \E cs \in SpecShapes, n \in {"x", "c"} : StartsAs(Graph(cs, n))

NextBatch ==
    \/ \E pairs \in Batches : SetMany(pairs)
    \/ \E w \in Writes : Set(w[1], w[2])
    \/ NotifyIter
    \/ FlushIter

SpecBatch == InitBatch /\ [][NextBatch]_vars

\* ------------------------------------------------------------- SpecOrder
\* Batches of up to MaxPairs + 1 numeric pairs on the graph of SpecBatch, so
\* that a cell can be named before and after another one.
InitOrder == \E cs \in SpecShapes : StartsAs(Graph(cs, "x"))

NextOrder ==
    \/ \E pairs \in SeqsUpTo(NumWrites, MaxPairs + 1) \ {<<>>} : SetMany(pairs)
    \/ NotifyIter
    \/ FlushIter

SpecOrder == InitOrder /\ [][NextOrder]_vars

\* ------------------------------------------------------------- SpecChain
\* Plain writes of x, in the positional module, on the graph of the
\* composeMixed test: c = compose(f0, x), e = compose(f1, c),
\* g = compose(f2, x, c, e), constructed in this order, then two observing
\* callbacks on g.
Chain(f0, f1, f2) ==
    LET M1 == Composed(Empty("positional"), "c", f0, <<"x">>)
        M2 == Composed(M1, "e", f1, <<"c">>)
        M3 == Composed(M2, "g", f2, <<"x", "c", "e">>)
    IN  Settled(Observed(Observed(M3, "g"), "g"))

InitChain == \E f0, f1, f2 \in {"sum", "acc", "box"} : StartsAs(Chain(f0, f1, f2))

NextChain ==
    \/ \E v \in Nums \cup {Flat(1, 1), Flat(2, 1)} : Set("x", v)
    \/ NotifyIter

SpecChain == InitChain /\ [][NextChain]_vars

\* -------------------------------------------------------------- SpecView
\* Read-only views in the named-inputs module.  The graph is built twice
\* over: c = compose(f, rx, y) reads x through the view rx = toReadonly(x),
\* e = compose(f, x, y) reads x itself.  Callback 1 is registered on x or on
\* c directly; callback 2 is registered later through a view (rx or rc =
\* toReadonly(c)) or on e.
Mirror(f, n) ==
    LET M1 == Composed(Empty("named"), "c", f, <<"rx", "y">>)
        M2 == Composed(M1, "e", f, <<"x", "y">>)
    IN  Settled(Observed(M2, n))

InitView == \E f \in {"sum", "acc"}, n \in {"x", "c"} : StartsAs(Mirror(f, n))

NextView ==
    \/ \E w \in NumWrites : Set(w[1], w[2])
    \/ \E pairs \in SeqsUpTo(NumWrites, MaxPairs) \ {<<>>} : SetMany(pairs)
    \/ \E n \in Views \cup {"e"}, r \in BOOLEAN :
          OnChange(n, "nop", "-", 0, Undefined, r)
    \/ \E n \in Views \cup {"x", "c"} : ReadVal(n)
    \/ \E r \in Views, v \in Nums : SetOn(r, v)
    \/ StopListening("c")
    \/ NotifyIter
    \/ FlushIter
    \/ OnChangeReturn

SpecView == InitView /\ [][NextView]_vars

\* ------------------------------------------------------------ SpecEquals
\* deepEquals (lines 614-640), the equality written out in the source, on
\* JavaScript values as trees: a primitive (a number, NaN, null, undefined),
\* an array of values or a plain object from keys to values.
Prim(t, v) == [t |-> t, v |-> v]
Arr(items) == [t |-> "array", v |-> items]
Obj(fields) == [t |-> "object", v |-> fields]

Primitives ==
    {Prim("number", n) : n \in 0..MaxNum}
    \cup {Prim("NaN", 0), Prim("null", 0), Prim("undefined", 0)}
Keys == {<<"a", "b", "c">>[i] : i \in 1..MaxLen}
ArraysOver(S) == {Arr(s) : s \in UNION {[1..k -> S] : k \in 0..MaxLen}}
ObjectsOver(S) == {Obj(f) : f \in UNION {[K -> S] : K \in SUBSET Keys}}

\* Primitives, arrays and objects of primitives, and each of these inside
\* an array of one element or an object of one key.
Flats == Primitives \cup ArraysOver(Primitives) \cup ObjectsOver(Primitives)
Trees == Flats \cup {Arr(<<e>>) : e \in Flats} \cup {Obj([k \in {"a"} |-> e]) : e \in Flats}

typeof(a) ==
    CASE a.t \in {"number", "NaN"} -> "number"
      [] a.t = "undefined" -> "undefined"
      [] OTHER -> "object"
isArray(a) == a.t = "array"
isNaN(a) == a.t = "NaN"

\* a === b.  Two arrays or objects are identical when they are the same
\* allocation: with shared, values of the same content are one allocation
\* wherever they occur; without, every array and object is its own.
identical(a, b, shared) ==
    IF a.t \in {"array", "object"} THEN shared /\ a = b
    ELSE a = b /\ ~isNaN(a)

\* Mutant: the keys of b are not looked up in a.
RECURSIVE deepEqualsKeysOfA(_, _, _)
deepEqualsKeysOfA(a, b, shared) ==
    IF identical(a, b, shared) \/ (isNaN(a) /\ isNaN(b)) THEN TRUE
    ELSE IF \/ typeof(a) # typeof(b)
            \/ typeof(a) # "object"
            \/ typeof(b) # "object"
            \/ a.t = "null" \/ b.t = "null"
    THEN FALSE
    ELSE IF isArray(a) # isArray(b) THEN FALSE
    ELSE IF isArray(a) /\ isArray(b)
    THEN IF Len(a.v) # Len(b.v) THEN FALSE
         ELSE \A i \in 1..Len(a.v) : deepEqualsKeysOfA(a.v[i], b.v[i], shared)
    ELSE IF \E k \in DOMAIN a.v : k \notin DOMAIN b.v THEN FALSE
    ELSE \A k \in DOMAIN a.v : deepEqualsKeysOfA(a.v[k], b.v[k], shared)

RECURSIVE deepEquals(_, _, _)
deepEquals(a, b, shared) ==
    IF identical(a, b, shared) \/ (isNaN(a) /\ isNaN(b)) THEN TRUE
    ELSE IF \/ typeof(a) # typeof(b)
            \/ typeof(a) # "object"
            \/ typeof(b) # "object"
            \/ a.t = "null" \/ b.t = "null"
    THEN FALSE
    ELSE IF isArray(a) # isArray(b) THEN FALSE
    ELSE IF isArray(a) /\ isArray(b)
    THEN IF Len(a.v) # Len(b.v) THEN FALSE
         ELSE \A i \in 1..Len(a.v) : deepEquals(a.v[i], b.v[i], shared)
    ELSE IF \E k \in DOMAIN a.v : k \notin DOMAIN b.v THEN FALSE
    ELSE IF \E k \in DOMAIN b.v : k \notin DOMAIN a.v THEN FALSE
    ELSE \A k \in DOMAIN a.v : deepEquals(a.v[k], b.v[k], shared)

\* A call deepEquals(a, b) that has not run yet.
EqualsOp(a, b, shared) ==
    [name |-> "deepEquals", node |-> "-", v |-> Undefined, pairs |-> <<>>,
     id |-> 0, a |-> a, b |-> b, shared |-> shared]

InitEquals ==
    \E a, b \in Trees, shared \in BOOLEAN :
        StartsAs([Empty("positional") EXCEPT !.op = EqualsOp(a, b, shared),
                                            !.result = "running"])

DeepEquals ==
    /\ op.name = "deepEquals" /\ result = "running"
    /\ Commit([Cur EXCEPT !.ret = deepEquals(op.a, op.b, op.shared),
                          !.result = "ok"])

NextEquals == DeepEquals

SpecEquals == InitEquals /\ [][NextEquals]_vars

\* ----------------------------------------------------------- SpecQuiesce
\* Writes and batches, in the positional module, on a graph whose callbacks
\* write cells: callback 1 is registered on x, then c = compose(f, x) or
\* compose(f, x, y) and e = compose(sum, c, y) are constructed, then callback
\* 2 is registered on x, c or e.  A callback observes, writes 0 to x or
\* writes 1 to y.  x's registry starts with MaxGaps churned slots before
\* callback 1, or between callback 1 and the update slot of c, or with none.
WriteBehaviours ==
    {<<"nop", "-", 0, Undefined>>, <<"set", "x", 0, Num(0)>>, <<"set", "y", 0, Num(1)>>}

Reacting(k1, b1, k2, f, cs, n2, b2) ==
    LET M1 == Listening(Churned(Empty("positional"), "x", k1), "x", b1)
        M2 == Composed(Churned(M1, "x", k2), "c", f, cs)
        M3 == Composed(M2, "e", "sum", <<"c", "y">>)
    IN  Settled(Listening(M3, n2, b2))

InitQuiesce ==
    \E k \in {<<0, 0>>, <<MaxGaps, 0>>, <<0, MaxGaps>>} :
        \E b1, b2 \in WriteBehaviours, f \in {"sum", "box"}, cs \in SpecShapes :
            \E n2 \in {"x", "c", "e"} :
                StartsAs(Reacting(k[1], b1, k[2], f, cs, n2, b2))

\* A batch names both cells, in either order.
NextQuiesce ==
    \/ \E w \in Writes : Set(w[1], w[2])
    \/ \E d \in Sources, v, w \in Nums :
          SetMany(<<<<d, v>>, <<CHOOSE o \in Sources : o # d, w>>>>)
    \/ NotifyIter
    \/ FlushIter

SpecQuiesce == InitQuiesce /\ [][NextQuiesce]_vars

\* ----------------------------------------------------------- SpecDiamond
\* Plain writes, in the positional module, on a graph in which a node
\* reaches x through two derived upstreams: c = compose(f0, x),
\* e = compose(f1, x), then g = compose(f2, c, e) or compose(f2, x, c, e),
\* then an observing callback on g.
Diamond(f0, f1, f2, cs) ==
    LET M1 == Composed(Empty("positional"), "c", f0, <<"x">>)
        M2 == Composed(M1, "e", f1, <<"x">>)
        M3 == Composed(M2, "g", f2, cs)
    IN  Settled(Observed(M3, "g"))

InitDiamond ==
    \E f0, f1, f2 \in {"sum", "acc", "box"} :
        \E cs \in {<<"c", "e">>, <<"x", "c", "e">>} :
            StartsAs(Diamond(f0, f1, f2, cs))

NextDiamond ==
    \/ \E w \in Writes : Set(w[1], w[2])
    \/ NotifyIter

SpecDiamond == InitDiamond /\ [][NextDiamond]_vars

\* ------------------------------------------------------------ SpecOrphan
\* A derived node whose upstream is destroyed, in either module:
\* c = compose(f, x) or compose(f, x, y), then e = compose(sum, c, y), then
\* an observing callback on e; c is destroyed at some moment, and cells are
\* written and e is read before and after.
Orphaned(v, f, cs) ==
    LET M1 == Composed(Empty(v), "c", f, cs)
        M2 == Composed(M1, "e", "sum", <<"c", "y">>)
    IN  Settled(Observed(M2, "e"))

InitOrphan ==
    \E v \in {"positional", "named"}, f \in {"sum", "acc"}, cs \in SpecShapes :
        StartsAs(Orphaned(v, f, cs))

NextOrphan ==
    \/ \E w \in NumWrites : Set(w[1], w[2])
    \/ StopListening("c")
    \/ ReadVal("e")
    \/ NotifyIter

SpecOrphan == InitOrphan /\ [][NextOrphan]_vars

\* -------------------------------------------------------------- SpecLate
\* Constructions over a node that may have been destroyed, in the
\* positional module: c = compose(f, x) exists and is destroyed at some
\* moment; e is constructed over two of x, y and c, before or after that;
\* cells are written throughout.
InitLate ==
    \E f \in {"sum", "acc"} :
        StartsAs(Settled(Composed(Empty("positional"), "c", f, <<"x">>)))

LateShapes == {<<"x", "c">>, <<"c", "x">>, <<"y", "c">>, <<"x", "y">>}

NextLate ==
    \/ \E w \in NumWrites : Set(w[1], w[2])
    \/ StopListening("c")
    \/ \E f \in {"sum", "acc"}, cs \in LateShapes : Compose("e", f, cs)
    \/ NotifyIter

SpecLate == InitLate /\ [][NextLate]_vars

\* ================================================================ claims
Returned == stack = <<>> /\ result = "ok"
CallsOf(l) == {j \in 1..Len(log) : log[j].k = "call" /\ log[j].listener = l}
Events(kind, n) == {j \in 1..Len(log) : log[j].k = kind /\ log[j].node = n}
HasCallback(ls) == \E n \in 1..Len(ls) : ls[n].k = "cb"
Live(c) == made[c] = "yes" /\ ~destroyed[c]

\* C1: a set whose argument is deep-equal to the cell's value returns at
\* once: no notification pass starts, so no callback and no combine
\* function of any node runs, and the cell's value afterwards is deep-equal
\* to its value before.
C1_NoOpWrite ==
    (op.name = "set" /\ deepEqual(op.v, pre.val[op.node]))
        => /\ Returned
           /\ log = <<>>
           /\ deepEqual(val[op.node], pre.val[op.node])

\* A deep-equal, not identical, object is written to x while x and a live
\* derived node over x both have a callback.
C1_Witness ==
    /\ op.name = "set" /\ op.node = "x"
    /\ pre.val["x"] = Flat(1, 1) /\ op.v = Flat(2, 1) /\ val["x"] = Flat(2, 1)
    /\ Live("c") /\ cursors["c"][1] = "x"
    /\ HasCallback(listeners["x"]) /\ HasCallback(listeners["c"])
    /\ Returned

\* C2: when a set whose argument is not deep-equal to the cell's value has
\* returned, the cell holds the argument and every callback that was in the
\* cell's registry when set was called has been invoked exactly once, with
\* (argument, previous value) and the unsubscribe closure of its own slot.
C2_WriteNotifies ==
    (op.name = "set" /\ ~deepEqual(op.v, pre.val[op.node]) /\ Returned)
        => /\ val[op.node] = op.v
           /\ \A n \in 1..Len(pre.listeners[op.node]) :
                LET l == pre.listeners[op.node][n] IN
                l.k = "cb" =>
                    /\ Cardinality(CallsOf(l)) = 1
                    /\ \A j \in CallsOf(l) :
                          /\ log[j].node = op.node
                          /\ log[j].newVal = op.v
                          /\ log[j].oldVal = pre.val[op.node]
                          /\ log[j].n = n

\* A changing set on x has returned with two callbacks in x's registry.
C2_Witness ==
    /\ op.name = "set" /\ op.node = "x" /\ ~deepEqual(op.v, pre.val["x"])
    /\ Returned
    /\ Cardinality({n \in 1..Len(pre.listeners["x"]) : pre.listeners["x"][n].k = "cb"}) = 2

\* C3: when compose has returned, the new node is subscribed to every
\* upstream, its value is its combine function applied to the upstream
\* values and null, and the construction ran the combine function once and
\* nothing else: no notification pass, no callback.
C3_Construction ==
    (op.name = "compose" /\ Returned) =>
        LET c == op.node
            snapshot == [k \in 1..Len(cursors[c]) |-> pre.val[cursors[c][k]]]
        IN  /\ \A k \in 1..Len(cursors[c]) :
                  \E n \in 1..Len(listeners[cursors[c][k]]) :
                      listeners[cursors[c][k]][n] = Upd(c, k)
            /\ val[c] = compute(fn[c], snapshot, Null)
            /\ Len(log) = 1
            /\ log[1].k = "compute" /\ log[1].node = c
            /\ log[1].in = snapshot /\ log[1].oldVal = Null

\* A reducer over x and y is constructed while x has a callback and holds an
\* object.
C3_Witness ==
    /\ op.name = "compose" /\ Returned
    /\ fn["c"] = "acc" /\ cursors["c"] = <<"x", "y">>
    /\ HasCallback(listeners["x"])
    /\ val["x"] = Flat(1, 1) /\ val["y"] = Num(1)

\* ------------------------------------------------------------ batches
Named(pairs) == {pairs[i][1] : i \in 1..Len(pairs)}
LastStaged(pairs, d) ==
    LET last == CHOOSE i \in 1..Len(pairs) :
                    /\ pairs[i][1] = d
                    /\ \A j \in (i + 1)..Len(pairs) : pairs[j][1] # d
    IN  pairs[last][2]
Recomputed(n) ==
    compute(fn[n], [k \in 1..Len(cursors[n]) |-> val[cursors[n][k]]], pre.val[n])

\* C4: during one setMany, every derived node runs its combine function at
\* most once and starts at most one notification pass of its own listeners,
\* whatever the graph and however often its upstreams were staged.
C4_BatchOnce ==
    op.name = "setMany" =>
        \A n \in Derived :
            /\ Cardinality(Events("compute", n)) <= 1
            /\ Cardinality(Events("pass", n)) <= 1

\* C5: during setMany, at every invocation of a callback or of a combine
\* function, and at the start of every notification pass, every cell named
\* in the batch holds its last staged value.
C5_BatchAtomic ==
    op.name = "setMany" =>
        \A j \in 1..Len(log) : \A d \in Named(op.pairs) :
            log[j].vals[d] = LastStaged(op.pairs, d)

\* A batch that changes both x and y has run a combine function and a
\* callback.
C5_Witness ==
    /\ op.name = "setMany" /\ Returned
    /\ Named(op.pairs) = {"x", "y"}
    /\ \A d \in Sources : ~deepEqual(val[d], pre.val[d])
    /\ \E j \in 1..Len(log) : log[j].k = "compute"
    /\ \E j \in 1..Len(log) : log[j].k = "call"

\* C6: when a set or a setMany has returned, a derived node whose output
\* recomputed from the final upstream values is deep-equal to its output
\* before the call has had none of its callbacks invoked during the call.
C6_NoSpuriousNotification ==
    (op.name \in {"set", "setMany"} /\ Returned) =>
        \A n \in Derived :
            (Live(n) /\ deepEqual(Recomputed(n), pre.val[n]))
                => Events("call", n) = {}

\* C7: when setMany has returned, for each cell it names: if the value at
\* batch start and the last staged value are deep-equal, no notification
\* pass of the cell ran (so none of its callbacks and none of the update
\* slots of its dependents was invoked); otherwise exactly one pass ran,
\* with (last staged value, batch-start value), and each callback of the
\* cell was invoked exactly once with these arguments.  If no named cell
\* changed, nothing ran at all.
C7_CommitComparesEnds ==
    (op.name = "setMany" /\ Returned) =>
        /\ \A d \in Named(op.pairs) :
             LET first == pre.val[d]
                 last == LastStaged(op.pairs, d)
             IN  IF deepEqual(first, last)
                 THEN Events("pass", d) = {} /\ Events("call", d) = {}
                 ELSE /\ Cardinality(Events("pass", d)) = 1
                      /\ \A j \in Events("pass", d) \cup Events("call", d) :
                            log[j].newVal = last /\ log[j].oldVal = first
                      /\ \A n \in 1..Len(pre.listeners[d]) :
                            pre.listeners[d][n].k = "cb"
                                => Cardinality(CallsOf(pre.listeners[d][n])) = 1
        /\ (\A d \in Named(op.pairs) :
                deepEqual(pre.val[d], LastStaged(op.pairs, d))) => log = <<>>

\* x, which has a callback, is staged twice in one batch, with an
\* intermediate value that differs from the last one, and ends changed.
C7_Witness ==
    /\ op.name = "setMany" /\ Returned
    /\ Len(op.pairs) = 2 /\ Named(op.pairs) = {"x"}
    /\ ~deepEqual(op.pairs[1][2], op.pairs[2][2])
    /\ ~deepEqual(op.pairs[2][2], pre.val["x"])
    /\ HasCallback(pre.listeners["x"])
    /\ Events("call", "x") # {}

\* C8: when setMany(pairs) has returned, each cell named in pairs holds the
\* value of the last pair that names it, and every other cell holds the
\* value it had before the call.
C8_FinalValues ==
    (op.name = "setMany" /\ Returned) =>
        \A d \in Sources :
            val[d] = IF d \in Named(op.pairs)
                     THEN LastStaged(op.pairs, d) ELSE pre.val[d]

\* setMany([x, y.val], [y, x.val]) has exchanged two different values.
C8_Witness ==
    /\ op.name = "setMany" /\ Returned
    /\ op.pairs = <<<<"x", pre.val["y"]>>, <<"y", pre.val["x"]>>>>
    /\ pre.val["x"] # pre.val["y"]
    /\ val["x"] = pre.val["y"] /\ val["y"] = pre.val["x"]

\* ---------------------------------------------------------- the registry
\* C11: a call of the closure that onChange returned for a callback never
\* throws, and every other listener that was in a slot of that registry
\* before the call is in the same slot after it, whatever happened to the
\* registry since the closure was issued.
C11_UnsubscribeIsLocal ==
    [][(stack = <<>> /\ op'.name = "unsub")
          => /\ result' = "ok"
             /\ \A j \in 1..Len(listeners[op'.node]) :
                   LET l == listeners[op'.node][j] IN
                   (l # undefinedSlot /\ l.id # op'.id)
                       => /\ j <= Len(listeners'[op'.node])
                          /\ listeners'[op'.node][j] = l]_vars


\* The events a step adds to the log (a top-level call starts a new log).
NewEvents == IF stack = <<>> THEN 1..Len(log') ELSE (Len(log) + 1)..Len(log')

\* C12: a callback whose onChange closure has been invoked is never invoked
\* again, whatever registrations, removals, passes and compactions happened
\* between its registration and the call of the closure.
C12_RevokedStaysSilent ==
    [][\A j \in NewEvents :
          log'[j].k = "call" => log'[j].listener.id \notin revoked]_vars

\* ------------------------------------------------------------- one pass
\* A write of a cell whose call ran one notification pass, the cell's.
Passes == {j \in 1..Len(log) : log[j].k = "pass"}
OnePass == op.name = "set" /\ Cardinality(Passes) = 1
InRegistry(l, ls) == \E n \in 1..Len(ls) : ls[n] = l

\* C13: a callback invoked by a notification pass of a cell was in the
\* cell's registry when the pass started: one registered by a callback
\* during the pass is not invoked by that pass.
C13_NewListenerWaits ==
    OnePass =>
        \A j \in Events("call", op.node) :
            InRegistry(log[j].listener, pre.listeners[op.node])

\* C14: within one notification pass, callbacks are invoked in the order
\* in which they were registered (identities are handed out in registration
\* order), whatever registrations and unsubscriptions came before the pass.
C14_RegistrationOrder ==
    OnePass =>
        \A i, j \in Events("call", op.node) :
            i < j => log[i].listener.id < log[j].listener.id

\* A pass over a registry with an empty slot ahead of its two callbacks,
\* which were both registered before the write, has invoked both.
C14_Witness ==
    /\ OnePass /\ Returned
    /\ Len(pre.listeners[op.node]) >= 3
    /\ pre.listeners[op.node][1] = undefinedSlot
    /\ \E i, j \in Events("call", op.node) :
          /\ i < j
          /\ InRegistry(log[i].listener, pre.listeners[op.node])
          /\ InRegistry(log[j].listener, pre.listeners[op.node])

\* Slot n of the registry ls of node d is invoked by a pass over ls: it
\* holds a callback, and no callback that the pass invoked before reaching
\* it holds the closure of index n of that registry and calls it.
RECURSIVE Reached(_, _, _)
Reached(ls, d, n) ==
    /\ ls[n].k = "cb"
    /\ \A m \in 1..(n - 1) :
          ~(/\ Reached(ls, d, m)
            /\ ls[m].beh = "unsub"
            /\ handle[ls[m].tid] = [arr |-> d, n |-> n])
CallsOfSlot(d, n) == {j \in Events("call", d) : log[j].n = n}

\* C15: when callbacks unsubscribe themselves or one another during a
\* pass, a callback whose slot was emptied before the pass reached it is
\* not invoked, and every other callback that was registered when the pass
\* started is invoked exactly once, whether it was unsubscribed after its
\* invocation or not.
C15_UnsubscribeDuringPass ==
    (OnePass /\ Returned) =>
        LET ls == pre.listeners[op.node] IN
        \A n \in 1..Len(ls) :
            ls[n].k = "cb" =>
                /\ Cardinality(CallsOfSlot(op.node, n))
                      = IF Reached(ls, op.node, n) THEN 1 ELSE 0
                /\ \A j \in CallsOfSlot(op.node, n) : log[j].listener = ls[n]

\* A callback that a pass invoked emptied the slot of a later callback,
\* which the pass then did not invoke.
C15_Witness ==
    /\ OnePass /\ Returned
    /\ \E m, n \in 1..Len(pre.listeners[op.node]) :
          /\ m < n
          /\ Reached(pre.listeners[op.node], op.node, m)
          /\ pre.listeners[op.node][n].k = "cb"
          /\ ~Reached(pre.listeners[op.node], op.node, n)
          /\ CallsOfSlot(op.node, m) # {}
          /\ CallsOfSlot(op.node, n) = {}
          /\ listeners[op.node][n] = undefinedSlot

\* -------------------------------------------------------- runImmediately
\* C16: onChange(cb, true) on a cell or a live derived node invokes cb
\* exactly once, before it returns and before anything else runs, with the
\* node's current value as both arguments and with the closure of the slot
\* cb was stored in; onChange(cb) without the flag invokes nothing.
C16_RunImmediately ==
    /\ (op.name = "onChangeNow" /\ result # "error") =>
          /\ Len(log) >= 1
          /\ CallsOfSlot(op.node, log[1].n) = {1}
          /\ {j \in 1..Len(log) : log[j].k = "call" /\ log[j].listener.id = op.id} = {1}
          /\ log[1].k = "call" /\ log[1].node = op.node
          /\ log[1].newVal = pre.val[op.node] /\ log[1].oldVal = pre.val[op.node]
          /\ log[1].n = Len(pre.listeners[op.node]) + 1
          /\ listeners[op.node][log[1].n] =
                IF log[1].listener.beh = "unsubSelf" THEN undefinedSlot
                ELSE log[1].listener
    /\ (op.name = "onChange" /\ result # "error") => log = <<>>

\* onChange(cb, true) on a live derived node that already has a listener
\* has invoked cb and has not returned yet.
C16_Witness ==
    /\ op.name = "onChangeNow" /\ op.node = "c" /\ Live("c")
    /\ stack # <<>> /\ Head(stack).op = "onChange"
    /\ Len(pre.listeners["c"]) >= 1
    /\ Len(log) = 1 /\ log[1].listener.id = op.id

\* ------------------------------------------------------ re-entrant writes
\* The invocations made by the pass that a write of a cell started: those
\* with the write's own arguments.
OwnCalls(l) ==
    {j \in CallsOf(l) : /\ log[j].node = op.node
                        /\ log[j].newVal = op.v
                        /\ log[j].oldVal = pre.val[op.node]}

\* C17: when a write of a cell has returned, whatever cells its callbacks
\* wrote meanwhile, the pass it started invoked no callback twice, invoked
\* callbacks in registration order, and invoked every callback that was
\* registered when it started and is still registered.
C17_ReentrantWrite ==
    (op.name = "set" /\ Returned /\ ~deepEqual(op.v, pre.val[op.node])) =>
        LET ls == pre.listeners[op.node] IN
        /\ \A n \in 1..Len(ls) :
              ls[n].k = "cb" =>
                  /\ Cardinality(OwnCalls(ls[n])) <= 1
                  /\ InRegistry(ls[n], listeners[op.node])
                        => Cardinality(OwnCalls(ls[n])) = 1
        /\ \A m, n \in 1..Len(ls) :
              (m < n /\ ls[m].k = "cb" /\ ls[n].k = "cb") =>
                  \A i \in OwnCalls(ls[m]), j \in OwnCalls(ls[n]) : i < j

\* ------------------------------------------------------------ exceptions
Throwers == {j \in 1..Len(log) : log[j].k = "call" /\ log[j].listener.beh = "throw"}

\* C18: when a pass started by a write has invoked a callback that throws,
\* the write has failed with nothing of the library left running, the cell
\* holds the written value, that invocation is the last one of the call, and
\* no callback was invoked more than once.
C18_ListenerThrows ==
    (OnePass /\ Throwers # {}) =>
        /\ result = "error" /\ stack = <<>>
        /\ val[op.node] = op.v
        /\ Throwers = {Len(log)}
        /\ \A n \in 1..Len(listeners[op.node]) :
              /\ Cardinality(CallsOfSlot(op.node, n)) <= 1
              /\ n > log[Len(log)].n => CallsOfSlot(op.node, n) = {}

\* The first of two callbacks threw; the second is still registered and was
\* not invoked.
C18_Witness ==
    /\ OnePass /\ result = "error"
    /\ Len(log) = 2 /\ Throwers = {2}
    /\ \E n \in 1..Len(listeners[op.node]) :
          /\ n > log[2].n
          /\ listeners[op.node][n].k = "cb"
          /\ CallsOfSlot(op.node, n) = {}

\* C19: when a write or a batch has returned without error, every live
\* derived node that a notification of one of its upstreams reached during
\* the call holds its combine function applied to the current upstream
\* values, whatever exceptions earlier calls ended with (stated for the
\* combine function sum, which is pure).
ReachedBy(n) ==
    \E k \in 1..Len(cursors[n]) :
        /\ Events("pass", cursors[n][k]) # {}
        /\ InRegistry(Upd(n, k), listeners[cursors[n][k]])
C19_RecomputedAfterError ==
    (op.name \in {"set", "setMany"} /\ Returned) =>
        \A n \in Derived :
            (Live(n) /\ fn[n] = "sum" /\ ReachedBy(n))
                => val[n] = Recomputed(n)

\* C20: a combine function is given, as third argument, a capability that
\* destroys its node: once a combine function has called its third argument,
\* its node is destroyed and the call that ran it did not fail.
C20_SelfDestroy ==
    \A j \in 1..Len(log) :
        (log[j].k = "compute" /\ callsThird(fn[log[j].node], log[j].in))
            => destroyed[log[j].node] /\ result # "error"

\* ------------------------------------------------------- destroyed nodes
\* The program's own state: everything but the observers.
ProgramVars ==
    <<ver, val, lastVal, listeners, destroyed, made, fn, cursors, lastIn,
      onDestroy, stack, nextId, handle>>

\* C9: a read of val, or an onChange call, on a derived node that has been
\* destroyed throws and changes nothing.  (A step taken with an empty stack
\* is a top-level call, and op' names it.)
C9_DestroyedFails ==
    [][(/\ stack = <<>>
        /\ op'.name \in {"val", "onChange", "onChangeNow"}
        /\ op'.node \in Derived
        /\ destroyed[op'.node])
          => (result' = "error" /\ UNCHANGED ProgramVars)]_vars

\* C10: no callback registered on a derived node is invoked, and its combine
\* function is not invoked, at a moment when the node is already destroyed;
\* this covers the rest of a notification pass of the node during which a
\* callback destroyed it.
C10_NothingAfterDestroy ==
    \A j \in 1..Len(log) : log[j].k \in {"call", "compute"} => ~log[j].dead

\* ------------------------------------------------------- read-only views
\* The arguments of the invocations of callback id, and of the combine
\* function of node n, during the current call, in order.
Args(e) == [in |-> e.in, newVal |-> e.newVal, oldVal |-> e.oldVal]
RECURSIVE ArgsOf(_)
ArgsOf(events) ==
    IF events = <<>> THEN <<>> ELSE <<Args(Head(events))>> \o ArgsOf(Tail(events))
CallArgs(id) ==
    ArgsOf(SelectSeq(log, LAMBDA e : e.k = "call" /\ e.listener.id = id))
ComputeArgs(n) ==
    ArgsOf(SelectSeq(log, LAMBDA e : e.k = "compute" /\ e.node = n))
Registered(id) ==
    /\ handle[id] # NoHandle
    /\ Len(listeners[handle[id].arr]) >= handle[id].n
    /\ listeners[handle[id].arr][handle[id].n].id = id

\* C21: a read through a view returns the value of the node behind it; an
\* onChange through a view stores the callback in that node's registry (and
\* with runImmediately invokes it once with the node's value), after which
\* the callback is invoked whenever, and with the arguments with which, a
\* callback registered on the node directly is; a set on a view fails and
\* changes nothing; and a derived node over a view of x has, whenever no
\* call is running, the value and the snapshot of its twin over x, its
\* combine function and its callback having been invoked with the same
\* arguments.
C21_ReadonlyView ==
    /\ (op.name = "val" /\ op.node \in Views) =>
          result = "ok" /\ ret = val[datumOf(op.node)]
    /\ (op.name = "onChange" /\ op.node \in Views /\ result = "ok") =>
          /\ handle[op.id].arr = datumOf(op.node)
          /\ Registered(op.id)
          /\ log = <<>>
    /\ (op.name = "onChangeNow" /\ op.node \in Views /\ result # "error") =>
          /\ CallArgs(op.id) = <<[in |-> <<>>, newVal |-> pre.val[datumOf(op.node)],
                                  oldVal |-> pre.val[datumOf(op.node)]]>>
          /\ log[1].node = datumOf(op.node)
          /\ listeners[datumOf(op.node)][log[1].n] = log[1].listener
    /\ (op.name \in {"onChange", "onChangeNow"} /\ op.node \in Views) =>
          (result = "error") = onChangeThrows(Cur, datumOf(op.node))
    /\ (op.name \in {"set", "setMany"} /\ op.node \notin Views /\ stack = <<>>) =>
          /\ (Registered(1) /\ Registered(2) /\ handle[1].arr = handle[2].arr)
                => CallArgs(1) = CallArgs(2)
          /\ (Registered(1) /\ Registered(2)
                /\ handle[1].arr = "c" /\ handle[2].arr = "e")
                => CallArgs(1) = CallArgs(2)
    /\ (op.name = "set" /\ op.node \in Views) =>
          /\ result = "error" /\ log = <<>>
          /\ val = pre.val /\ listeners = pre.listeners /\ lastIn = pre.lastIn
    /\ (stack = <<>> /\ Live("c") /\ Live("e")) =>
          /\ val["c"] = val["e"]
          /\ lastIn["c"] = lastIn["e"]
          /\ ComputeArgs("c") = ComputeArgs("e")

\* A write of x has changed the twins c and e and has invoked callback 1,
\* registered on c, and callback 2, registered through the view of c.
C21_Witness ==
    /\ op.name = "set" /\ op.node = "x" /\ Returned
    /\ Registered(1) /\ Registered(2)
    /\ handle[1].arr = "c" /\ handle[2].arr = "c"
    /\ Len(CallArgs(2)) = 1
    /\ val["c"] # pre.val["c"] /\ val["e"] = val["c"]

\* ------------------------------------------------------------- reducers
\* C22: for a live derived node over one cell, a plain write of the cell
\* with a value deep-equal to the cell's value does not invoke the combine
\* function, and any other write invokes it exactly once, with the written
\* value and the node's output before the write, that is the output of the
\* preceding invocation; the result becomes the node's value.  The
\* construction invokes it once, with null.
C22_OncePerChange ==
    /\ (/\ op.name = "set" /\ Returned
        /\ pre.made["c"] = "yes" /\ ~pre.destroyed["c"] /\ Live("c")
        /\ cursors["c"] = <<op.node>>) =>
          IF deepEqual(op.v, pre.val[op.node])
          THEN Events("compute", "c") = {} /\ val["c"] = pre.val["c"]
          ELSE /\ Cardinality(Events("compute", "c")) = 1
               /\ \A j \in Events("compute", "c") :
                     /\ log[j].in = <<op.v>>
                     /\ log[j].oldVal = pre.val["c"]
                     /\ log[j].newVal = compute(fn["c"], <<op.v>>, pre.val["c"])
                     /\ val["c"] = log[j].newVal
    /\ (op.name = "compose" /\ Returned /\ Len(cursors["c"]) = 1) =>
          /\ Cardinality(Events("compute", "c")) = 1
          /\ \A j \in Events("compute", "c") :
                log[j].oldVal = Null /\ val["c"] = log[j].newVal

\* A write has made a reducer over x run on a previous output that is not
\* null and differs from what the reducer returns on null.
C22_Witness ==
    /\ op.name = "set" /\ op.node = "x" /\ Returned
    /\ Live("c") /\ fn["c"] = "acc" /\ cursors["c"] = <<"x">>
    /\ \E j \in Events("compute", "c") :
          /\ log[j].oldVal # Null
          /\ log[j].newVal # compute("acc", log[j].in, Null)

\* ---------------------------------------------------------- mixed graph
Upstream(n) == [k \in 1..Len(cursors[n]) |-> val[cursors[n][k]]]

\* C23: on the graph c = f0(x), e = f1(c), g = f2(x, c, e), a write of x
\* that returns without changing x (deep-equal value) runs nothing; any
\* other recomputes each of c, e, g at most once and g exactly once, from
\* the values x, c and e have when the write returns, and invokes each
\* callback of g exactly once, with (new output, previous output), if g's
\* output changed and not at all if it did not.
C23_MixedGraph ==
    (op.name = "set" /\ op.node = "x" /\ Returned /\ Live("g")) =>
        IF deepEqual(op.v, pre.val["x"]) THEN log = <<>>
        ELSE /\ \A n \in {"c", "e"} : Cardinality(Events("compute", n)) <= 1
             /\ Cardinality(Events("compute", "g")) = 1
             /\ \A j \in Events("compute", "g") : log[j].in = Upstream("g")
             /\ val["g"] = compute(fn["g"], Upstream("g"), pre.val["g"])
             /\ \A n \in 1..Len(pre.listeners["g"]) :
                   LET l == pre.listeners["g"][n] IN
                   l.k = "cb" =>
                       IF deepEqual(val["g"], pre.val["g"]) THEN CallsOf(l) = {}
                       ELSE /\ Cardinality(CallsOf(l)) = 1
                            /\ \A j \in CallsOf(l) :
                                  /\ log[j].newVal = val["g"]
                                  /\ log[j].oldVal = pre.val["g"]

\* A write of x has changed c, e and g, so that g was notified by each of
\* its three upstreams, and g's two callbacks have run.
C23_Witness ==
    /\ op.name = "set" /\ op.node = "x" /\ Returned /\ Live("g")
    /\ cursors["g"] = <<"x", "c", "e">>
    /\ \A n \in Derived : val[n] # pre.val[n] /\ Events("pass", n) # {}
    /\ Cardinality(Events("call", "g")) = 2

\* -------------------------------------------------------- pending marker
\* C24: whenever no call is running, whether the last one returned or
\* threw, the pending marker #lastVal of every cell is UNSET.
C24_PendingCleared ==
    stack = <<>> => \A d \in Sources : lastVal[d] = UNSET

\* ---------------------------------------------------------- commit order
\* The cells named in pairs, each once, in the order of first appearance.
RECURSIVE FirstAppearance(_)
FirstAppearance(pairs) ==
    IF pairs = <<>> THEN <<>>
    ELSE LET before == FirstAppearance(SubSeq(pairs, 1, Len(pairs) - 1))
             d == pairs[Len(pairs)][1]
         IN  IF \E i \in 1..Len(before) : before[i] = d THEN before
             ELSE Append(before, d)

\* The cells whose notification pass has started during the current call,
\* in order.
RECURSIVE NodesOf(_)
NodesOf(events) ==
    IF events = <<>> THEN <<>> ELSE <<Head(events).node>> \o NodesOf(Tail(events))
CellPasses == NodesOf(SelectSeq(log, LAMBDA e : e.k = "pass" /\ e.node \in Sources))
IsPrefix(s, q) == Len(s) <= Len(q) /\ s = SubSeq(q, 1, Len(s))
CellPassesRunning ==
    Cardinality({i \in 1..Len(stack) :
                    stack[i].op = "notify" /\ stack[i].arr \in Sources})

\* C25: during setMany nothing runs until every pair is staged: when the
\* second loop starts, every named cell holds its last staged value and has
\* its marker set, and nothing was invoked.  The passes of the cells then
\* run one at a time, in the order in which the cells first appear in the
\* pair list, one pass for each cell whose last staged value differs from
\* its value at batch start, however often the cell is named.
C25_CommitOrder ==
    op.name = "setMany" =>
        LET changed == SelectSeq(FirstAppearance(op.pairs),
                                 LAMBDA d : ~deepEqual(LastStaged(op.pairs, d),
                                                       pre.val[d]))
        IN  /\ (stack # <<>> /\ Head(stack).op = "flush" /\ Head(stack).i = 1) =>
                  /\ log = <<>>
                  /\ \A d \in Named(op.pairs) :
                        /\ val[d] = LastStaged(op.pairs, d)
                        /\ lastVal[d] = pre.val[d]
            /\ \A j \in 1..Len(log) : \A d \in Named(op.pairs) :
                  log[j].vals[d] = LastStaged(op.pairs, d)
            /\ CellPassesRunning <= 1
            /\ IsPrefix(CellPasses, changed)
            /\ Returned => CellPasses = changed

\* A batch that names y, then x, then y again has returned, and both cells
\* were committed, y first.
C25_Witness ==
    /\ op.name = "setMany" /\ Returned
    /\ Len(op.pairs) = 3
    /\ op.pairs[1][1] = "y" /\ op.pairs[2][1] = "x" /\ op.pairs[3][1] = "y"
    /\ CellPasses = <<"y", "x">>

\* ------------------------------------------------- value and snapshot
\* C26: in every state, the value of a live derived node is its combine
\* function applied to the node's cached snapshot #lastIn (stated for the
\* combine functions whose output depends on the snapshot alone; a state of
\* the model is never inside a combine function).
C26_ValueOfSnapshot ==
    \A n \in Derived :
        (Live(n) /\ fn[n] \in {"sum", "partial"})
            => /\ ~computeThrows(fn[n], lastIn[n])
               /\ val[n] = compute(fn[n], lastIn[n], Null)

\* ---------------------------------------------------- the update handler
\* The pass on top of the stack is about to call the update slot of a
\* derived node whose cached entry for that upstream is shallow-equal to the
\* notified value.
AtShortCircuit ==
    /\ stack # <<>> /\ Head(stack).op = "notify"
    /\ Head(stack).i <= Len(listeners[Head(stack).arr])
    /\ LET l == listeners[Head(stack).arr][Head(stack).i] IN
       /\ l.k = "upd"
       /\ lastIn[l.node] # NoSnapshot
       /\ shallowEqual(Head(stack).newVal, lastIn[l.node][l.idx])

\* C27: a call of the update handler with a value shallow-equal to the
\* cached entry of the notifying upstream returns at once: no combine
\* function and no callback is invoked, no pass starts, and values,
\* snapshots and registries are what they were; the notifying pass goes on
\* to its next slot.
C27_ShortCircuit ==
    [][AtShortCircuit =>
          /\ log' = log
          /\ val' = val /\ lastIn' = lastIn /\ listeners' = listeners
          /\ destroyed' = destroyed /\ lastVal' = lastVal
          /\ result' = "running"
          /\ stack' = [stack EXCEPT ![1].i = @ + 1]]_vars

\* During a batch the pass of a cell has just gone past its first slot, the
\* update slot of a derived node that had already re-read the cell, and
\* nothing was invoked.
C27_Witness ==
    /\ op.name = "setMany"
    /\ stack # <<>> /\ Head(stack).op = "notify" /\ Head(stack).i = 2
    /\ log[Len(log)].k = "pass" /\ log[Len(log)].node = Head(stack).arr
    /\ LET l == listeners[Head(stack).arr][1] IN
       /\ l.k = "upd"
       /\ Events("compute", l.node) # {}
       /\ shallowEqual(Head(stack).newVal, lastIn[l.node][l.idx])

\* The pass on top of the stack is about to call the update slot of a
\* derived node whose cached entry for that upstream is not shallow-equal
\* to the notified value.
AtRecompute ==
    /\ stack # <<>> /\ Head(stack).op = "notify"
    /\ Head(stack).i <= Len(listeners[Head(stack).arr])
    /\ LET l == listeners[Head(stack).arr][Head(stack).i] IN
       /\ l.k = "upd"
       /\ lastIn[l.node] # NoSnapshot
       /\ ~shallowEqual(Head(stack).newVal, lastIn[l.node][l.idx])

PassArgs(n) == ArgsOf(SelectSeq(log, LAMBDA e : e.k = "pass" /\ e.node = n))

\* C28: a call of the update handler that is not short-circuited reads
\* every upstream, stores these values as the snapshot, and invokes the
\* combine function on them and on the node's value, which it replaces by
\* the result; when the result is deep-equal to the previous value nothing
\* else happens, otherwise a pass over the node's listeners starts with
\* (result, previous value).  Each callback of a derived node is invoked
\* once in each pass of the node, with the arguments of the pass.
C28_Recompute ==
    /\ [][AtRecompute =>
            LET c == listeners[Head(stack).arr][Head(stack).i].node
                snapshot == Upstream(c)
                out == compute(fn[c], snapshot, val[c])
                caller == [stack EXCEPT ![1].i = @ + 1]
                computed == log'[Len(log) + 1]
            IN  /\ lastIn'[c] = snapshot
                /\ val'[c] = out
                /\ Len(log') >= Len(log) + 1
                /\ computed.k = "compute" /\ computed.node = c
                /\ computed.in = snapshot /\ computed.oldVal = val[c]
                /\ computed.newVal = out
                /\ IF deepEqual(out, val[c])
                   THEN Len(log') = Len(log) + 1 /\ stack' = caller
                   ELSE /\ Len(log') = Len(log) + 2
                        /\ log'[Len(log) + 2].k = "pass"
                        /\ log'[Len(log) + 2].node = c
                        /\ stack' = <<NotifyFrame(c, out, val[c])>> \o caller]_vars
    /\ [](Returned =>
            \A n \in Derived : \A j \in 1..Len(listeners[n]) :
                listeners[n][j].k = "cb"
                    => CallArgs(listeners[n][j].id) = PassArgs(n))

\* A write of x has replaced the value of c by a deep-equal object of
\* another allocation without a pass of c; g, notified by x alone, has
\* re-read c as well and has notified its two callbacks.
C28_Witness ==
    /\ op.name = "set" /\ Returned
    /\ Events("compute", "c") # {} /\ Events("pass", "c") = {}
    /\ val["c"] # pre.val["c"] /\ deepEqual(val["c"], pre.val["c"])
    /\ lastIn["g"][2] = val["c"]
    /\ Len(PassArgs("g")) = 1 /\ Cardinality(Events("call", "g")) = 2

\* ------------------------------------------------------------ compaction
LiveSlots(ls) == SelectSeq(ls, LAMBDA l : l # undefinedSlot)
EmptySlots(ls) == Len(ls) - Len(LiveSlots(ls))

\* C29: a registry gets shorter only in the step that ends a notification
\* pass over it, and only if it then has more slots than the high-water
\* mark and more than 3/4 of them are empty; the step removes the empty
\* slots and nothing else: the live listeners and their order are the same
\* before and after.
C29_Compaction ==
    [][\A n \in Nodes :
          Len(listeners'[n]) < Len(listeners[n]) =>
              /\ stack # <<>> /\ Head(stack).op = "notify"
              /\ Head(stack).arr = n
              /\ Head(stack).i > Len(listeners[n])
              /\ stack' = Tail(stack)
              /\ Len(listeners[n]) > HighWater
              /\ EmptySlots(listeners[n]) * 4 > Len(listeners[n]) * 3
              /\ EmptySlots(listeners'[n]) = 0
              /\ LiveSlots(listeners'[n]) = LiveSlots(listeners[n])]_vars

\* A write of x found seven empty slots and two callbacks, invoked both, and
\* has left a registry of two slots holding them in the same order.
C29_Witness ==
    /\ op.name = "set" /\ op.node = "x" /\ Returned
    /\ Len(pre.listeners["x"]) = 9 /\ EmptySlots(pre.listeners["x"]) = 7
    /\ Len(listeners["x"]) = 2
    /\ listeners["x"] = LiveSlots(pre.listeners["x"])
    /\ Cardinality(Events("call", "x")) = 2

\* ---------------------------------------------------------- deepEquals
\* Deep structural equality: equal primitives (NaN equal to NaN), arrays
\* of equal length with pairwise equal elements, or objects with the same
\* keys and equal values per key; anything else is unequal.
IsPrimitive(a) == a.t \notin {"array", "object"}
RECURSIVE SameTree(_, _)
SameTree(a, b) ==
    CASE IsPrimitive(a) /\ IsPrimitive(b) -> a.t = b.t /\ a.v = b.v
      [] a.t = "array" /\ b.t = "array" ->
            /\ Len(a.v) = Len(b.v)
            /\ \A i \in 1..Len(a.v) : SameTree(a.v[i], b.v[i])
      [] a.t = "object" /\ b.t = "object" ->
            /\ DOMAIN a.v = DOMAIN b.v
            /\ \A k \in DOMAIN a.v : SameTree(a.v[k], b.v[k])
      [] OTHER -> FALSE

\* C30: deepEquals(a, b) returns true exactly when a and b are deep
\* structurally equal, whether or not they share allocations; so an array
\* and an object, values of different types, and null and anything else
\* are unequal.
C30_DeepEquals ==
    (op.name = "deepEquals" /\ result = "ok") => ret = SameTree(op.a, op.b)

\* deepEquals has returned true for two separately allocated objects that
\* hold an array with NaN in it.
C30_Witness ==
    /\ op.name = "deepEquals" /\ result = "ok" /\ ret = TRUE
    /\ ~op.shared
    /\ op.a = Obj([k \in {"a"} |-> Arr(<<Prim("NaN", 0), Prim("number", 0)>>)])
    /\ op.b = op.a

\* -------------------------------------------------- quiescent consistency
\* Callbacks that wrote a cell while the current call ran.
Reentries == {j \in 1..Len(log) : log[j].k = "call" /\ log[j].listener.beh = "set"}

\* C31: when a set or a setMany has returned, every entry of the cached
\* snapshot of every live derived node is deep-equal to the current value of
\* the upstream it was read from, and the node's value is deep-equal to its
\* combine function applied to the current upstream values (the combine
\* functions sum and box ignore the previous output but for the allocation
\* of the result), whatever cells the callbacks wrote during the call.
C31_QuiescentConsistency ==
    (op.name \in {"set", "setMany"} /\ Returned) =>
        \A n \in Derived :
            Live(n) =>
                /\ Len(lastIn[n]) = Len(cursors[n])
                /\ \A k \in 1..Len(cursors[n]) :
                      deepEqual(lastIn[n][k], val[cursors[n][k]])
                /\ fn[n] \in {"sum", "box"}
                      => deepEqual(val[n], compute(fn[n], Upstream(n), val[n]))

\* A write of x has returned during which a callback wrote x back: the pass
\* of the outer write reached the update slot of c after the nested one, c
\* was recomputed more than once, and x ends with its value from before.
C31_Witness ==
    /\ op.name = "set" /\ op.node = "x" /\ Returned
    /\ ~deepEqual(op.v, pre.val["x"]) /\ deepEqual(val["x"], pre.val["x"])
    /\ \E j \in Reentries : log[j].listener.tgt = "x" /\ log[j].node = "c"
    /\ Cardinality(Events("compute", "c")) >= 2
    /\ Cardinality(Events("pass", "x")) = 2

\* ------------------------------------------------------------- one write
\* C32: during a plain write of a cell, every derived node runs its combine
\* function at most once and starts at most one pass over its listeners,
\* and when the write has returned every invocation of a combine function
\* was given the values its upstreams have then: none ran on a mix of
\* values from before and after the write.
C32_GlitchFree ==
    (op.name = "set" /\ op.node \in Sources) =>
        \A n \in Derived :
            /\ Cardinality(Events("compute", n)) <= 1
            /\ Cardinality(Events("pass", n)) <= 1
            /\ Returned => \A j \in Events("compute", n) : log[j].in = Upstream(n)

\* ------------------------------------------------------- last notification
\* The invocations of callback id by passes of node d during the current
\* call.
CallsBy(id, d) ==
    {j \in 1..Len(log) : log[j].k = "call" /\ log[j].listener.id = id /\ log[j].node = d}

\* C33: when a plain write of a cell has returned, every callback of the
\* cell that was invoked during the call was given, the last time it was
\* invoked, the value the cell has now, whatever the callbacks of the cell
\* wrote to it meanwhile.
C33_LastSeenIsCurrent ==
    (op.name = "set" /\ Returned) =>
        \A id \in 1..MaxCb :
            \A j \in CallsBy(id, op.node) :
                (\A h \in CallsBy(id, op.node) : h <= j)
                    => deepEqual(log[j].newVal, val[op.node])

\* ------------------------------------------------- a destroyed upstream
\* C34: once c is destroyed, a read of the live node e over c and y returns
\* e's value, and no write of y fails.
C34_OrphanSurvives ==
    (pre.destroyed["c"] /\ Live("e")) =>
        /\ (op.name = "val" /\ op.node = "e") => (result = "ok" /\ ret = val["e"])
        /\ (op.name = "set" /\ op.node = "y") => result # "error"

\* ------------------------------------------------- a failed construction
\* The registries that hold an update slot of node n.
SubscribedTo(n) ==
    {d \in Nodes : \E j \in 1..Len(listeners[d]) :
                        listeners[d][j].k = "upd" /\ listeners[d][j].node = n}

\* Node n was destroyed when the current call began.
WasDestroyed(n) == IF n \in Derived THEN pre.destroyed[n] ELSE FALSE

\* C35: compose over upstreams of which one is a destroyed derived node
\* fails; afterwards no registry holds an update slot of the node that was
\* not constructed, and no write of a cell fails.
C35_FailedComposeLeavesNothing ==
    /\ (op.name = "compose" /\ \E k \in 1..Len(cursors[op.node]) :
                                   WasDestroyed(cursors[op.node][k]))
          => result = "error" /\ made[op.node] = "threw"
    /\ \A n \in Derived :
          made[n] = "threw" =>
              /\ SubscribedTo(n) = {}
              /\ (op.name = "set" /\ pre.made[n] = "threw") => result # "error"

\* ------------------------------------------------------ length of a pass
\* Every callback invoked so far by the current call returned and wrote no
\* cell.
QuietCallbacks ==
    \A j \in 1..Len(log) :
        log[j].k = "call" => log[j].listener.beh \notin {"set", "throw"}

\* C36: a pass started by a write whose callbacks return and write nothing
\* invokes at most as many callbacks as the registry held when the write
\* began, also when callbacks register further callbacks on the cell.
C36_PassBounded ==
    (op.name = "set" /\ QuietCallbacks) =>
        Cardinality(Events("call", op.node)) <= Len(LiveSlots(pre.listeners[op.node]))

=============================================================================
